---- MODULE Spec2Model ----
(***************************************************************************)
(* Model of charms.helper: the memoization cache and flush of              *)
(* charms/tool/utils.py, the deferred-callback registry (atexit), the      *)
(* Config dictionary with its previous-hook snapshot, and the memoized     *)
(* loader config() of charms/model/unit.py.                                *)
(*                                                                         *)
(* One process is one hook invocation.  The snapshot file and the external *)
(* config source outlive the process; the cache, the registry and every    *)
(* Python object die with it.                                              *)
(***************************************************************************)
EXTENDS Integers, Sequences, FiniteSets, TLC

VARIABLES
    source,     \* what `config-get --format=json` prints now
    fs,         \* the snapshot files, by path
    cache,      \* utils.cache : key string -> memoized result
    heap,       \* the list objects of the process, by address
    instances,  \* the Config objects of the process, in construction order
    _atexit,    \* the deferred-callback registry
    registered, \* the calls of atexit() made in this process, in order
    ran,        \* the callbacks invoked so far in this process, in order
    ret,        \* the value returned by the last call of config()
    fetches,    \* how many times a wrapped function ran (config-get spawned)
    phase,      \* "running", "done" (after the completion signal), "aborted"
    ops,        \* how many times the caller used a Config object so far
    prevHook    \* what the last completed hook left behind (history)

vars == <<source, fs, cache, heap, instances, _atexit, registered, ran, ret,
          fetches, ops, phase, prevHook>>

----------------------------------------------------------------------------
(* Bounds *)

MaxFetch == 3      \* config-get subprocesses spawned in a behaviour
MaxOps == 1        \* caller operations on Config objects in a behaviour
MaxCallbacks == 3  \* callbacks the caller registers in a hook

----------------------------------------------------------------------------
(* Python / JSON values.  A value is a tagged record; `kind` is compared   *)
(* first.  "ref" is a Python list object (an address in heap), "list" is   *)
(* a JSON array as written in a document.                                  *)

None == [kind |-> "null", val |-> 0]
PyStr(s) == [kind |-> "str", val |-> s]
PyInt(n) == [kind |-> "int", val |-> n]
PyList(s) == [kind |-> "list", val |-> s]
Ref(a) == [kind |-> "ref", val |-> a]
Obj(i) == [kind |-> "Config", val |-> i]

EmptyDict == <<>>

\* dict.get(k) : a missing key gives None
Get(d, k) == IF k \in DOMAIN d THEN d[k] ELSE None

\* d[k] = v
Put(d, k, v) == [x \in (DOMAIN d) \cup {k} |-> IF x = k THEN v ELSE d[x]]

\* del d[k]
Remove(d, k) == [x \in (DOMAIN d) \ {k} |-> d[x]]

\* The order in which the keys of a document are visited.
KeyOrder == <<"foo", "new", "mykey">>
Keys == {KeyOrder[i] : i \in 1..Len(KeyOrder)}
Rank(k) == CHOOSE i \in 1..Len(KeyOrder) : KeyOrder[i] = k

\* The JSON text of a Python value: a list object is written by content.
Deep(v, h) == IF v.kind = "ref" THEN PyList(h[v.val]) ELSE v

\* json.dump of a dict: the document holding the content of every value.
JsonDump(d, h) == [k \in DOMAIN d |-> Deep(d[k], h)]

\* The Python object of one JSON value: an array becomes a new list object.
AllocValue(v, h) ==
    IF v.kind = "list" THEN [val |-> Ref(Len(h) + 1), heap |-> Append(h, v.val)]
    ELSE [val |-> v, heap |-> h]

\* The Python objects of a document: every array becomes a new list object,
\* allocated after the objects of heap h.  Gives the dict and the new heap.
Allocate(doc, h) ==
    LET arrays == {k \in DOMAIN doc : doc[k].kind = "list"}
        addr(k) == Len(h) + Cardinality({j \in arrays : Rank(j) <= Rank(k)})
        keyAt(n) == CHOOSE k \in arrays : addr(k) = Len(h) + n
    IN  [dict |-> [k \in DOMAIN doc |->
                     IF k \in arrays THEN Ref(addr(k)) ELSE doc[k]],
         heap |-> h \o [n \in 1..Cardinality(arrays) |-> doc[keyAt(n)].val]]

\* json.load of a document.
JsonLoad(doc, h) == Allocate(doc, h)

\* copy.deepcopy of a dict: every list object is copied to a new one.
DeepCopy(d, h) == Allocate([k \in DOMAIN d |-> Deep(d[k], h)], h)

\* Python == on two values of one heap.
PyEq(a, b, h) == Deep(a, h) = Deep(b, h)

----------------------------------------------------------------------------
(* Files and the external config source *)

DefaultPath == "CHARM_DIR/.juju-persistent-config"
\* A path the caller passes to load_previous: a snapshot kept elsewhere.
OtherPath == "CHARM_DIR/backup-config"
Paths == {DefaultPath, OtherPath}

NoFile == [exists |-> FALSE, doc |-> EmptyDict]
File(doc) == [exists |-> TRUE, doc |-> doc]

NonJson == [json |-> FALSE, doc |-> EmptyDict]
Json(doc) == [json |-> TRUE, doc |-> doc]

\* The snapshot documents an earlier hook may have left behind.
InitFiles ==
    { NoFile,
      File(EmptyDict),
      File([foo |-> PyStr("bar")]),
      File([foo |-> PyStr("bar"), mykey |-> PyList(<<PyInt(1)>>)]) }

\* The snapshot kept elsewhere.
OtherFile == File([mykey |-> PyStr("kept")])

\* What the external config source may hold: the charm's options, or
\* output that is not JSON (no configuration yet).
SourceDocs ==
    { NonJson,
      Json([foo |-> PyStr("bar")]),
      Json([foo |-> PyStr("baz"), new |-> PyInt(1)]) }

----------------------------------------------------------------------------
(* The memoization key: str((func, args, kwargs)) *)

Chars ==
    [ config |-> <<"c", "o", "n", "f", "i", "g">>,
      function |-> <<"f", "u", "n", "c", "t", "i", "o", "n">>,
      scope |-> <<"s", "c", "o", "p", "e">>,
      foo |-> <<"f", "o", "o">>,
      new |-> <<"n", "e", "w">>,
      None |-> <<"N", "o", "n", "e">>,
      f |-> <<"f">>,
      a |-> <<"a">>,
      b |-> <<"b">> ]

\* repr of a small int
Digits == <<"0", "1", "2", "3", "4", "5", "6", "7", "8", "9">>

\* repr of a function object
FuncRepr(func) ==
    <<"<">> \o Chars["function"] \o <<" ">> \o Chars[func]
            \o <<" ", "a", "t", " ", "0", "x", "1", ">">>

\* repr of an argument value
Repr(v) ==
    IF v.kind = "null" THEN Chars["None"]
    ELSE IF v.kind = "int" THEN <<Digits[v.val + 1]>>
    ELSE <<"'">> \o Chars[v.val] \o <<"'">>

RECURSIVE Join(_, _)
Join(parts, sep) ==
    IF Len(parts) = 0 THEN <<>>
    ELSE IF Len(parts) = 1 THEN parts[1]
    ELSE parts[1] \o sep \o Join(Tail(parts), sep)

\* repr of the positional-argument tuple
ReprTuple(args) ==
    IF Len(args) = 1 THEN <<"(">> \o Repr(args[1]) \o <<",", ")">>
    ELSE <<"(">> \o Join([i \in 1..Len(args) |-> Repr(args[i])], <<",", " ">>)
                 \o <<")">>

\* repr of the keyword-argument dict, in the order the keywords were passed
ReprDict(kwargs) ==
    <<"{">> \o Join([i \in 1..Len(kwargs) |->
                       <<"'">> \o Chars[kwargs[i][1]] \o <<"'", ":", " ">>
                               \o Repr(kwargs[i][2])], <<",", " ">>)
            \o <<"}">>

\* key = str((func, args, kwargs))
CacheKey(func, args, kwargs) ==
    <<"(">> \o FuncRepr(func) \o <<",", " ">> \o ReprTuple(args)
            \o <<",", " ">> \o ReprDict(kwargs) \o <<")">>

\* `key in item` on strings
Contains(item, key) ==
    \E i \in 1..(Len(item) + 1) :
        /\ i + Len(key) - 1 <= Len(item)
        /\ SubSeq(item, i, i + Len(key) - 1) = key

\* The ways config() is called.
NoArgs == [args |-> <<>>, kwargs |-> <<>>]
CallForms ==
    { NoArgs,
      [args |-> <<PyStr("foo")>>, kwargs |-> <<>>],
      [args |-> <<>>, kwargs |-> << <<"scope", PyStr("new")>> >>] }

\* The substrings flush() is called with.
FlushKeys == { Chars["config"], Chars["foo"], <<"(", ")">> }

\* scope bound from the positional arguments only.
ScopeOf_positional(form) ==
    IF Len(form.args) > 0 THEN form.args[1] ELSE None

\* The parameter `scope` of config(scope=None) as bound by a call.
ScopeOf(form) ==
    IF Len(form.args) > 0 THEN form.args[1]
    ELSE IF Len(form.kwargs) > 0 THEN form.kwargs[1][2]
    ELSE None

----------------------------------------------------------------------------
(* class Config(dict) *)

NonePrev == [none |-> TRUE, dict |-> EmptyDict]
NoPath == ""

\* load_previous with the test `if k not in self` left out: the previous
\* value overwrites the current one.
load_previous_overwriting(c, path, h) ==
    LET p == IF path # NoPath THEN path ELSE c.path
        prev == JsonLoad(fs[p].doc, h)
        copy == DeepCopy(prev.dict, prev.heap)
        merged == [k \in (DOMAIN c.data) \cup (DOMAIN copy.dict) |->
                     IF k \in DOMAIN copy.dict THEN copy.dict[k] ELSE c.data[k]]
    IN  [inst |-> [c EXCEPT !.path = p,
                            !._prev_dict = [none |-> FALSE, dict |-> prev.dict],
                            !.data = merged],
         heap |-> copy.heap]

\* load_previous with copy.deepcopy left out: the current mapping takes the
\* list objects of the previous one.
load_previous_shallow(c, path, h) ==
    LET p == IF path # NoPath THEN path ELSE c.path
        prev == JsonLoad(fs[p].doc, h)
        merged == [k \in (DOMAIN c.data) \cup (DOMAIN prev.dict) |->
                     IF k \in DOMAIN c.data THEN c.data[k] ELSE prev.dict[k]]
    IN  [inst |-> [c EXCEPT !.path = p,
                            !._prev_dict = [none |-> FALSE, dict |-> prev.dict],
                            !.data = merged],
         heap |-> prev.heap]

\* load_previous with the merging loop left out: the keys held only by the
\* previous snapshot do not come back.
load_previous_unmerged(c, path, h) ==
    LET p == IF path # NoPath THEN path ELSE c.path
        prev == JsonLoad(fs[p].doc, h)
    IN  [inst |-> [c EXCEPT !.path = p,
                            !._prev_dict = [none |-> FALSE, dict |-> prev.dict]],
         heap |-> prev.heap]

\* load_previous that reads the file at `path` and leaves self.path alone.
load_previous_same_path(c, path, h) ==
    LET p == IF path # NoPath THEN path ELSE c.path
        prev == JsonLoad(fs[p].doc, h)
        copy == DeepCopy(prev.dict, prev.heap)
        merged == [k \in (DOMAIN c.data) \cup (DOMAIN copy.dict) |->
                     IF k \in DOMAIN c.data THEN c.data[k] ELSE copy.dict[k]]
    IN  [inst |-> [c EXCEPT !._prev_dict = [none |-> FALSE, dict |-> prev.dict],
                            !.data = merged],
         heap |-> copy.heap]

\* Config.load_previous(path) on object c with heap h.
\* Gives the object and the heap afterwards.
load_previous(c, path, h) ==
    LET p == IF path # NoPath THEN path ELSE c.path
        prev == JsonLoad(fs[p].doc, h)
        copy == DeepCopy(prev.dict, prev.heap)
        merged == [k \in (DOMAIN c.data) \cup (DOMAIN copy.dict) |->
                     IF k \in DOMAIN c.data THEN c.data[k] ELSE copy.dict[k]]
    IN  [inst |-> [c EXCEPT !.path = p,
                            !._prev_dict = [none |-> FALSE, dict |-> prev.dict],
                            !.data = merged],
         heap |-> copy.heap]

\* Config.__init__(config_data), up to the registration of the save.
ConfigInit(config_data, h) ==
    LET c == [data |-> config_data,
              implicit_save |-> TRUE,
              _prev_dict |-> NonePrev,
              path |-> DefaultPath]
    IN  IF fs[c.path].exists THEN load_previous(c, NoPath, h)
        ELSE [inst |-> c, heap |-> h]

\* previous that looks for the snapshot file again when none was loaded.
previous_retrying(c, key) ==
    IF c._prev_dict.none
    THEN IF fs[c.path].exists THEN Get(fs[c.path].doc, key) ELSE None
    ELSE IF DOMAIN c._prev_dict.dict # {}
    THEN Get(c._prev_dict.dict, key)
    ELSE None

\* Config.previous(key)
previous(c, key) ==
    IF ~c._prev_dict.none /\ DOMAIN c._prev_dict.dict # {}
    THEN Get(c._prev_dict.dict, key)
    ELSE None

\* changed with `if not self._prev_dict` for `if self._prev_dict is None`.
changed_falsy(c, key, h) ==
    IF c._prev_dict.none \/ DOMAIN c._prev_dict.dict = {} THEN TRUE
    ELSE ~PyEq(previous(c, key), Get(c.data, key), h)

\* Config.changed(key)
changed(c, key, h) ==
    IF c._prev_dict.none THEN TRUE
    ELSE ~PyEq(previous(c, key), Get(c.data, key), h)

\* save that updates the document of the file instead of replacing it: the
\* keys the file holds and the dict does not are kept.
save_updating(c, files, h) ==
    LET old == files[c.path].doc
        new == JsonDump(c.data, h)
    IN  [files EXCEPT ![c.path] =
            File([k \in (DOMAIN old) \cup (DOMAIN new) |->
                    IF k \in DOMAIN new THEN new[k] ELSE old[k]])]

\* save that creates the file and never overwrites one that exists.
save_exclusive(c, files, h) ==
    IF files[c.path].exists THEN files
    ELSE [files EXCEPT ![c.path] = File(JsonDump(c.data, h))]

\* save that writes a diff: only the keys whose value has changed.
save_changed_only(c, files, h) ==
    [files EXCEPT ![c.path] =
        File(JsonDump([k \in {x \in DOMAIN c.data : changed(c, x, h)} |->
                         c.data[k]], h))]

\* Config.save() : the files afterwards
save(c, files, h) == [files EXCEPT ![c.path] = File(JsonDump(c.data, h))]

\* _implicit_save without the test of self.implicit_save.
_implicit_save_always(c, files, h) == save(c, files, h)

\* Config._implicit_save() : the files afterwards
_implicit_save(c, files, h) ==
    IF c.implicit_save THEN save(c, files, h) ELSE files

----------------------------------------------------------------------------
(* The deferred-callback registry *)

\* An entry of the registry: (callback, args, kwargs).  `self` is the
\* Config object a bound method belongs to, 0 for a plain function.
\* The save registered for the first Config of the process, whichever
\* Config is constructed.
SaveCallback_first(i) ==
    [callback |-> "_implicit_save", self |-> 1, args |-> <<>>, kwargs |-> <<>>]

SaveCallback(i) ==
    [callback |-> "_implicit_save", self |-> i, args |-> <<>>, kwargs |-> <<>>]
UserCallback(name, args, kwargs) ==
    [callback |-> name, self |-> 0, args |-> args, kwargs |-> kwargs]

\* atexit that puts the new entry in front.
atexit_prepend(registry, entry) == <<entry>> \o registry

\* atexit that ignores an entry already in the registry.
atexit_once(registry, entry) ==
    IF \E n \in 1..Len(registry) : registry[n] = entry
    THEN registry
    ELSE Append(registry, entry)

\* atexit(callback, *args, **kwargs) : the registry afterwards
atexit(registry, entry) == Append(registry, entry)

\* The order in which the completion signal invokes the callbacks.
Reversed(seq) == [i \in 1..Len(seq) |-> seq[Len(seq) + 1 - i]]

\* The files after the callbacks of `order` were invoked one after the other.
RECURSIVE Invoke(_, _)
Invoke(order, files) ==
    IF Len(order) = 0 THEN files
    ELSE LET e == Head(order)
         IN  Invoke(Tail(order),
                    IF e.callback = "_implicit_save"
                    THEN _implicit_save(instances[e.self], files, heap)
                    ELSE files)

----------------------------------------------------------------------------
(* Initial state: a hook process starts with an empty cache and registry *)

NoHook == [outcome |-> "none", insts |-> <<>>]

Init ==
    /\ source \in SourceDocs
    /\ \E file \in InitFiles :
          fs = [p \in Paths |-> IF p = DefaultPath THEN file ELSE OtherFile]
    /\ cache = <<>>
    /\ heap = <<>>
    /\ instances = <<>>
    /\ _atexit = <<>>
    /\ registered = <<>>
    /\ ran = <<>>
    /\ ret = None
    /\ fetches = 0
    /\ ops = 0
    /\ phase = "running"
    /\ prevHook = NoHook

----------------------------------------------------------------------------
(* unit.config(scope=None), wrapped by utils.cached *)

\* The wrapper without the test `if key in cache`: every call goes to the
\* config source and stores what it got.
ConfigCall_uncached(form) ==
    LET key == CacheKey("config", form.args, form.kwargs)
        scope == ScopeOf(form)
    IN
    /\ phase = "running"
    /\ fetches < MaxFetch
    /\ fetches' = fetches + 1
    /\ IF ~source.json
       THEN \* json.loads raises ValueError
            /\ ret' = None
            /\ UNCHANGED <<heap, instances, _atexit, registered>>
       ELSE IF scope # None
       THEN \* config-get <scope> : the value of that option
            LET data == AllocValue(Get(source.doc, scope.val), heap)
            IN  /\ ret' = data.val
                /\ heap' = data.heap
                /\ UNCHANGED <<instances, _atexit, registered>>
       ELSE LET data == JsonLoad(source.doc, heap)
                made == ConfigInit(data.dict, data.heap)
                i == Len(instances) + 1
            IN  /\ ret' = Obj(i)
                /\ heap' = made.heap
                /\ instances' = Append(instances, made.inst)
                /\ _atexit' = atexit(_atexit, SaveCallback(i))
                /\ registered' = Append(registered, SaveCallback(i))
    /\ cache' = (key :> ret') @@ cache
    /\ UNCHANGED <<source, fs, ran, ops, phase, prevHook>>

\* config() without `except ValueError`: output that is not JSON ends the
\* hook with the exception.
ConfigCall_raising(form) ==
    LET key == CacheKey("config", form.args, form.kwargs)
        scope == ScopeOf(form)
    IN
    /\ phase = "running"
    /\ IF key \in DOMAIN cache
       THEN /\ ret' = cache[key]
            /\ UNCHANGED <<cache, heap, instances, _atexit, registered,
                           fetches, phase>>
       ELSE /\ fetches < MaxFetch
            /\ fetches' = fetches + 1
            /\ IF ~source.json
               THEN /\ phase' = "aborted"
                    /\ UNCHANGED <<cache, ret, heap, instances, _atexit,
                                   registered>>
               ELSE /\ IF scope # None
                       THEN LET data == AllocValue(Get(source.doc, scope.val),
                                                   heap)
                            IN  /\ ret' = data.val
                                /\ heap' = data.heap
                                /\ UNCHANGED <<instances, _atexit, registered>>
                       ELSE LET data == JsonLoad(source.doc, heap)
                                made == ConfigInit(data.dict, data.heap)
                                i == Len(instances) + 1
                            IN  /\ ret' = Obj(i)
                                /\ heap' = made.heap
                                /\ instances' = Append(instances, made.inst)
                                /\ _atexit' = atexit(_atexit, SaveCallback(i))
                                /\ registered' =
                                      Append(registered, SaveCallback(i))
                    /\ cache' = (key :> ret') @@ cache
                    /\ UNCHANGED phase
    /\ UNCHANGED <<source, fs, ran, ops, prevHook>>

\* The wrapper storing a result only when it is not None.
ConfigCall_skip_none(form) ==
    LET key == CacheKey("config", form.args, form.kwargs)
        scope == ScopeOf(form)
    IN
    /\ phase = "running"
    /\ IF key \in DOMAIN cache
       THEN /\ ret' = cache[key]
            /\ UNCHANGED <<cache, heap, instances, _atexit, registered,
                           fetches>>
       ELSE /\ fetches < MaxFetch
            /\ fetches' = fetches + 1
            /\ IF ~source.json
               THEN \* json.loads raises ValueError
                    /\ ret' = None
                    /\ UNCHANGED <<heap, instances, _atexit, registered>>
               ELSE IF scope # None
               THEN \* config-get <scope> : the value of that option
                    LET data == AllocValue(Get(source.doc, scope.val), heap)
                    IN  /\ ret' = data.val
                        /\ heap' = data.heap
                        /\ UNCHANGED <<instances, _atexit, registered>>
               ELSE LET data == JsonLoad(source.doc, heap)
                        made == ConfigInit(data.dict, data.heap)
                        i == Len(instances) + 1
                    IN  /\ ret' = Obj(i)
                        /\ heap' = made.heap
                        /\ instances' = Append(instances, made.inst)
                        /\ _atexit' = atexit(_atexit, SaveCallback(i))
                        /\ registered' = Append(registered, SaveCallback(i))
            /\ cache' = IF ret' = None THEN cache
                        ELSE (key :> ret') @@ cache
    /\ UNCHANGED <<source, fs, ran, ops, phase, prevHook>>

\* The call config(*form.args, **form.kwargs) through the wrapper.
ConfigCall(form) ==
    LET key == CacheKey("config", form.args, form.kwargs)
        scope == ScopeOf(form)
    IN
    /\ phase = "running"
    /\ IF key \in DOMAIN cache
       THEN /\ ret' = cache[key]
            /\ UNCHANGED <<cache, heap, instances, _atexit, registered,
                           fetches>>
       ELSE /\ fetches < MaxFetch
            /\ fetches' = fetches + 1
            /\ IF ~source.json
               THEN \* json.loads raises ValueError
                    /\ ret' = None
                    /\ UNCHANGED <<heap, instances, _atexit, registered>>
               ELSE IF scope # None
               THEN \* config-get <scope> : the value of that option
                    LET data == AllocValue(Get(source.doc, scope.val), heap)
                    IN  /\ ret' = data.val
                        /\ heap' = data.heap
                        /\ UNCHANGED <<instances, _atexit, registered>>
               ELSE LET data == JsonLoad(source.doc, heap)
                        made == ConfigInit(data.dict, data.heap)
                        i == Len(instances) + 1
                    IN  /\ ret' = Obj(i)
                        /\ heap' = made.heap
                        /\ instances' = Append(instances, made.inst)
                        /\ _atexit' = atexit(_atexit, SaveCallback(i))
                        /\ registered' = Append(registered, SaveCallback(i))
            /\ cache' = (key :> ret') @@ cache
    /\ UNCHANGED <<source, fs, ran, ops, phase, prevHook>>

\* The ways a memoized function f(a, b) of the caller is called: keywords
\* in either order, positional arguments, and other values.
KwForms ==
    { [args |-> <<>>, kwargs |-> << <<"a", PyInt(1)>>, <<"b", PyInt(2)>> >>],
      [args |-> <<>>, kwargs |-> << <<"b", PyInt(2)>>, <<"a", PyInt(1)>> >>],
      [args |-> <<>>, kwargs |-> << <<"a", PyInt(2)>>, <<"b", PyInt(1)>> >>],
      [args |-> <<PyInt(1), PyInt(2)>>, kwargs |-> <<>>] }

\* The parameter `name` of f(a, b) as bound by a call.
Bound(form, name) ==
    IF \E n \in 1..Len(form.kwargs) : form.kwargs[n][1] = name
    THEN form.kwargs[CHOOSE n \in 1..Len(form.kwargs) :
                        form.kwargs[n][1] = name][2]
    ELSE form.args[IF name = "a" THEN 1 ELSE 2]

\* What f(a, b) returns: a value of its two parameters.
F(form) == PyList(<<Bound(form, "a"), Bound(form, "b")>>)

\* The call f(*form.args, **form.kwargs) through the wrapper.
CachedCall(form) ==
    LET key == CacheKey("f", form.args, form.kwargs)
    IN
    /\ phase = "running"
    /\ IF key \in DOMAIN cache
       THEN /\ ret' = cache[key]
            /\ UNCHANGED <<cache, fetches>>
       ELSE /\ fetches < MaxFetch
            /\ fetches' = fetches + 1
            /\ ret' = F(form)
            /\ cache' = (key :> ret') @@ cache
    /\ UNCHANGED <<source, fs, heap, instances, _atexit, registered, ran, ops,
                   phase, prevHook>>

\* flush that empties the cache whatever the key.
Flush_all(key) ==
    /\ phase = "running"
    /\ cache' = [item \in {} |-> None]
    /\ UNCHANGED <<source, fs, heap, instances, _atexit, registered, ran, ret,
                   fetches, ops, phase, prevHook>>

\* utils.flush(key)
Flush(key) ==
    /\ phase = "running"
    /\ cache' = [item \in {it \in DOMAIN cache : ~Contains(it, key)} |->
                   cache[item]]
    /\ UNCHANGED <<source, fs, heap, instances, _atexit, registered, ran,
                   ret, fetches, ops, phase, prevHook>>

----------------------------------------------------------------------------
(* The caller's use of a Config object *)

\* What the caller stores: a charm option overwritten, and data of its own
\* under a key the config source never supplies (a string, a new list [1]).
SetItems ==
    { <<"foo", PyStr("myval")>>,
      <<"mykey", PyStr("myval")>>,
      <<"mykey", PyList(<<PyInt(1)>>)>> }
SetKeys == { kv[1] : kv \in SetItems }

\* config[k] = v that writes the snapshot through at once.
SetItem_saving(i, k, v) ==
    /\ phase = "running"
    /\ ops < MaxOps
    /\ LET new == AllocValue(v, heap)
       IN  /\ instances' = [instances EXCEPT ![i].data = Put(@, k, new.val)]
           /\ heap' = new.heap
    /\ fs' = save(instances'[i], fs, heap')
    /\ ops' = ops + 1
    /\ UNCHANGED <<source, cache, _atexit, registered, ran, ret, fetches,
                   phase, prevHook>>

\* config[k] = v on the i-th Config object
SetItem(i, k, v) ==
    /\ phase = "running"
    /\ ops < MaxOps
    /\ LET new == AllocValue(v, heap)
       IN  /\ instances' = [instances EXCEPT ![i].data = Put(@, k, new.val)]
           /\ heap' = new.heap
    /\ ops' = ops + 1
    /\ UNCHANGED <<source, fs, cache, _atexit, registered, ran, ret, fetches,
                   phase, prevHook>>

\* del config[k]
DelItem(i, k) ==
    /\ phase = "running"
    /\ ops < MaxOps
    /\ k \in DOMAIN instances[i].data
    /\ instances' = [instances EXCEPT ![i].data = Remove(@, k)]
    /\ ops' = ops + 1
    /\ UNCHANGED <<source, fs, cache, heap, _atexit, registered, ran, ret,
                   fetches, phase, prevHook>>

\* config[k].append(1) : in-place mutation of a nested list
AppendItem(i, k) ==
    /\ phase = "running"
    /\ ops < MaxOps
    /\ k \in DOMAIN instances[i].data
    /\ instances[i].data[k].kind = "ref"
    /\ LET a == instances[i].data[k].val
       IN  heap' = [heap EXCEPT ![a] = Append(@, PyInt(1))]
    /\ ops' = ops + 1
    /\ UNCHANGED <<source, fs, cache, instances, _atexit, registered, ran,
                   ret, fetches, phase, prevHook>>

\* config.save() called by the caller
Save(i) ==
    /\ phase = "running"
    /\ ops < MaxOps
    /\ fs' = save(instances[i], fs, heap)
    /\ ops' = ops + 1
    /\ UNCHANGED <<source, cache, heap, instances, _atexit, registered, ran,
                   ret, fetches, phase, prevHook>>

\* config.save() called by the caller once the callbacks have run
SaveAfterCompletion(i) ==
    /\ phase = "done"
    /\ fs' = save(instances[i], fs, heap)
    /\ UNCHANGED <<source, cache, heap, instances, _atexit, registered, ran,
                   ret, fetches, ops, phase, prevHook>>

\* The paths the caller passes to load_previous: none, or the other one.
LoadPaths == {NoPath, OtherPath}

\* config.load_previous(path) called by the caller.  When the file is not
\* there, open() raises once self.path is assigned, and the hook ends.
LoadPrevious(i, path) ==
    /\ phase = "running"
    /\ ops < MaxOps
    /\ LET p == IF path # NoPath THEN path ELSE instances[i].path
       IN  IF fs[p].exists
           THEN LET loaded == load_previous(instances[i], path, heap)
                IN  /\ instances' = [instances EXCEPT ![i] = loaded.inst]
                    /\ heap' = loaded.heap
                    /\ UNCHANGED phase
           ELSE /\ instances' = [instances EXCEPT ![i].path = p]
                /\ phase' = "aborted"
                /\ UNCHANGED heap
    /\ ops' = ops + 1
    /\ UNCHANGED <<source, fs, cache, _atexit, registered, ran, ret, fetches,
                   prevHook>>

\* config.implicit_save = b
SetImplicitSave(i, b) ==
    /\ phase = "running"
    /\ instances[i].implicit_save # b
    /\ instances' = [instances EXCEPT ![i].implicit_save = b]
    /\ UNCHANGED <<source, fs, cache, heap, _atexit, registered, ran, ret,
                   fetches, ops, phase, prevHook>>

----------------------------------------------------------------------------
(* The host environment *)

\* The completion signal: the hook body returned without raising, and the
\* host runs the registered callbacks, last registered first.
RunAtexit ==
    /\ phase = "running"
    /\ LET order == Reversed(_atexit)
       IN  /\ fs' = Invoke(order, fs)
           /\ ran' = ran \o order
    /\ phase' = "done"
    /\ UNCHANGED <<source, cache, heap, instances, _atexit, registered, ret,
                   fetches, ops, prevHook>>

\* The hook body raised: the process ends without the completion signal.
Abort ==
    /\ phase = "running"
    /\ phase' = "aborted"
    /\ UNCHANGED <<source, fs, cache, heap, instances, _atexit, registered,
                   ran, ret, fetches, ops, prevHook>>

\* What is remembered once the process of a hook is gone: the last hook
\* that completed having loaded the configuration, with what its Config
\* objects held at the end; forgotten when a hook aborts.
Ended ==
    IF phase = "aborted" THEN [outcome |-> "aborted", insts |-> <<>>]
    ELSE IF Len(instances) = 0 THEN prevHook
    ELSE [outcome |-> "done",
          insts |-> [i \in 1..Len(instances) |->
                       [data |-> JsonDump(instances[i].data, heap),
                        implicit_save |-> instances[i].implicit_save,
                        path |-> instances[i].path]]]

\* The next hook runs in a new process; the operator may have changed the
\* charm's configuration (juju set) in the meantime.
NextHook ==
    /\ phase \in {"done", "aborted"}
    /\ prevHook' = Ended
    /\ source' \in SourceDocs
    /\ cache' = <<>>
    /\ heap' = <<>>
    /\ instances' = <<>>
    /\ _atexit' = <<>>
    /\ registered' = <<>>
    /\ ran' = <<>>
    /\ ret' = None
    /\ phase' = "running"
    /\ UNCHANGED <<fs, fetches, ops>>

\* The operator changes the charm's configuration while a hook runs.
JujuSet(doc) ==
    /\ phase = "running"
    /\ source # doc
    /\ source' = doc
    /\ UNCHANGED <<fs, cache, heap, instances, _atexit, registered, ran, ret,
                   fetches, ops, phase, prevHook>>

\* The callbacks the caller registers besides the Config objects' saves.
UserCallbacks ==
    { UserCallback("A", <<>>, <<>>),
      UserCallback("B", <<PyInt(1)>>, <<>>),
      UserCallback("C", <<>>, << <<"k", PyInt(1)>> >>) }

\* The caller's atexit(callback, *args, **kwargs)
Register(entry) ==
    /\ phase = "running"
    /\ Cardinality({n \in 1..Len(_atexit) : _atexit[n].self = 0}) < MaxCallbacks
    /\ _atexit' = atexit(_atexit, entry)
    /\ registered' = Append(registered, entry)
    /\ UNCHANGED <<source, fs, cache, heap, instances, ran, ret, fetches, ops,
                   phase, prevHook>>

----------------------------------------------------------------------------
(* Specifications *)

\* Hooks one after the other: each loads the configuration with config(),
\* uses the Config object, may flush the cache, and completes or aborts.
Next ==
    \/ ConfigCall(NoArgs)
    \/ Flush(Chars["config"])
    \/ \E i \in 1..Len(instances) :
          \/ \E kv \in SetItems : SetItem(i, kv[1], kv[2])
          \/ \E k \in SetKeys : DelItem(i, k)
          \/ \E k \in SetKeys : AppendItem(i, k)
          \/ Save(i)
    \/ RunAtexit
    \/ Abort
    \/ NextHook

Spec == Init /\ [][Next]_vars

\* The first hook of a unit (no snapshot yet), which calls config() in
\* every form, flushes the cache by every substring and stores a value of
\* its own in what it got, while the config source changes.
InitCache == Init /\ ~fs[DefaultPath].exists

NextCache ==
    \/ \E form \in CallForms : ConfigCall(form)
    \/ \E key \in FlushKeys : Flush(key)
    \/ \E i \in 1..Len(instances) : SetItem(i, "mykey", PyStr("myval"))
    \/ \E doc \in SourceDocs : JujuSet(doc)

SpecCache == InitCache /\ [][NextCache]_vars

\* One hook that registers callbacks of its own besides loading the
\* configuration, and completes or aborts.
NextAtexit ==
    \/ \E entry \in UserCallbacks : Register(entry)
    \/ ConfigCall(NoArgs)
    \/ Flush(Chars["config"])
    \/ RunAtexit
    \/ Abort

SpecAtexit == Init /\ [][NextAtexit]_vars

\* One hook that loads the configuration, switches the automatic save of
\* its Config objects off and on, stores a value of its own, loads a
\* snapshot again or from elsewhere, saves by hand, and completes or aborts.
NextSave ==
    \/ ConfigCall(NoArgs)
    \/ Flush(Chars["config"])
    \/ \E i \in 1..Len(instances) :
          \/ \E b \in BOOLEAN : SetImplicitSave(i, b)
          \/ SetItem(i, "mykey", PyStr("myval"))
          \/ \E path \in LoadPaths : LoadPrevious(i, path)
          \/ Save(i)
          \/ SaveAfterCompletion(i)
    \/ RunAtexit
    \/ Abort

SpecSave == Init /\ [][NextSave]_vars

\* One hook that calls config() in every form, with or without a snapshot
\* of an earlier hook, while the config source changes, and completes or
\* aborts.
NextLoad ==
    \/ \E form \in CallForms : ConfigCall(form)
    \/ Flush(Chars["config"])
    \/ \E doc \in SourceDocs : JujuSet(doc)
    \/ RunAtexit
    \/ Abort

SpecLoad == Init /\ [][NextLoad]_vars

\* One hook that calls a memoized function of two parameters, passing them
\* by keyword in either order or by position, and flushes the cache.
NextKwargs ==
    \/ \E form \in KwForms : CachedCall(form)
    \/ Flush(Chars["function"])
    \/ Flush(<<"'", "a", "'", ":", " ", "1">>)

SpecKwargs == Init /\ [][NextKwargs]_vars

----------------------------------------------------------------------------
(* Properties *)

\* The Config objects of the running process.
Configs == {instances[i] : i \in 1..Len(instances)}

\* The keys asked about: those of the documents and one no document holds.
AnyKey == Keys \cup {"other"}

\* The union of documents S and P, S winning on the keys of both.
Union(S, P) ==
    [k \in (DOMAIN S) \cup (DOMAIN P) |-> IF k \in DOMAIN S THEN S[k] ELSE P[k]]

\* C1: changed(k) is true whenever no previous snapshot was loaded;
\* otherwise, also when the loaded snapshot is the empty object, it is true
\* iff the previous and the current value of k differ, a key missing from
\* either mapping counting as None.
C1_Changed ==
    \A c \in Configs : \A k \in AnyKey :
        IF c._prev_dict.none
        THEN changed(c, k, heap)
        ELSE changed(c, k, heap)
                <=> (Deep(Get(c._prev_dict.dict, k), heap)
                        # Deep(Get(c.data, k), heap))

\* A Config that loaded the empty snapshot {}: foo, which the source
\* supplies, has changed, and mykey, which nobody holds, has not.
C1_Witness ==
    \E c \in Configs :
        /\ ~c._prev_dict.none
        /\ c._prev_dict.dict = EmptyDict
        /\ changed(c, "foo", heap)
        /\ ~changed(c, "mykey", heap)

\* C8: right after construction from source data S with a loaded previous
\* snapshot P, current is the union of S and P with S winning; for
\* P = {foo: bar} and S = {foo: baz, new: 1}, foo and new have changed,
\* previous(foo) is bar and previous(new) is None.
C8_Construction ==
    [][ (Len(instances') = Len(instances) + 1 /\ fs[DefaultPath].exists) =>
          LET c == instances'[Len(instances')]
              S == source.doc
              P == fs[DefaultPath].doc
          IN  /\ JsonDump(c.data, heap') = Union(S, P)
              /\ (P = [foo |-> PyStr("bar")]
                    /\ S = [foo |-> PyStr("baz"), new |-> PyInt(1)])
                 => /\ changed(c, "foo", heap')
                    /\ previous(c, "foo") = PyStr("bar")
                    /\ changed(c, "new", heap')
                    /\ previous(c, "new") = None ]_vars

\* A Config built from {foo: baz, new: 1} over the snapshot
\* {foo: bar, mykey: [1]}: it holds foo and new of the source and mykey of
\* the snapshot.
C8_Witness ==
    \E c \in Configs :
        /\ ~c._prev_dict.none
        /\ JsonDump(c._prev_dict.dict, heap)
              = [foo |-> PyStr("bar"), mykey |-> PyList(<<PyInt(1)>>)]
        /\ JsonDump(c.data, heap)
              = [foo |-> PyStr("baz"), new |-> PyInt(1),
                 mykey |-> PyList(<<PyInt(1)>>)]

\* A step in which the caller reads or writes the current mapping of a
\* Config: an item is set or deleted, or a nested list is changed in place.
UsesCurrent ==
    \E i \in 1..Len(instances) :
        \/ \E kv \in SetItems : SetItem(i, kv[1], kv[2])
        \/ \E k \in SetKeys : DelItem(i, k)
        \/ \E k \in SetKeys : AppendItem(i, k)

\* C10: once previous is loaded, no get or set on current, the in-place
\* change of a nested list copied from the previous snapshot included,
\* changes what previous(k) returns.
C10_PreviousReadOnly ==
    [][ UsesCurrent =>
          \A i \in 1..Len(instances) : \A k \in AnyKey :
              Deep(previous(instances'[i], k), heap')
                = Deep(previous(instances[i], k), heap) ]_vars

\* The list under mykey came from the previous snapshot and was appended
\* to in current; previous(mykey) is still [1].
C10_Witness ==
    \E c \in Configs :
        /\ ~c._prev_dict.none
        /\ Deep(previous(c, "mykey"), heap) = PyList(<<PyInt(1)>>)
        /\ Deep(Get(c.data, "mykey"), heap) = PyList(<<PyInt(1), PyInt(1)>>)

\* The first Config of a hook is constructed, after a hook that completed.
FreshAfterCompletion ==
    /\ Len(instances) = 0
    /\ Len(instances') = 1
    /\ prevHook.outcome = "done"

\* The j-th Config of the last completed hook saved to the snapshot path
\* when the callbacks ran.
Saved(j) ==
    /\ prevHook.insts[j].implicit_save
    /\ prevHook.insts[j].path = DefaultPath

\* Its save was the last one: the Configs constructed before it, whose
\* callbacks run after its own, did not save to the snapshot path.
SavedLast(j) == Saved(j) /\ \A i \in 1..(j - 1) : ~Saved(i)

CallerKeys ==
    Keys \ UNION {DOMAIN src.doc : src \in SourceDocs}

C6_AbortDoesNotPersist ==
    [][ /\ (~RunAtexit /\ ~(\E i \in 1..Len(instances) : Save(i))) => fs' = fs
        /\ phase' = "aborted" => (ran' = <<>> /\ fs' = fs) ]_vars

\* An aborted hook: the caller had stored myval under mykey, no callback
\* has run and the snapshot file does not hold it.
C6_Witness ==
    /\ phase = "aborted"
    /\ ran = <<>>
    /\ \E c \in Configs : Get(c.data, "mykey") = PyStr("myval")
    /\ Get(fs[DefaultPath].doc, "mykey") # PyStr("myval")

\* No flush in this step.
NoFlush == ~(\E key \in FlushKeys : Flush(key))

\* C3: memoization.  With no flush in between, the calls of config() with
\* the same arguments return the same object, the one the cache holds under
\* the key of the call, and the config source is fetched once for that key:
\* a call whose key is cached fetches nothing and constructs nothing, a
\* fetch fills a key the cache did not hold, and a cached entry stays as it
\* is until a flush.
C3_Memoized ==
    [][ /\ \A form \in CallForms : ConfigCall(form) =>
              LET key == CacheKey("config", form.args, form.kwargs)
              IN  /\ key \in DOMAIN cache'
                  /\ ret' = cache'[key]
                  /\ key \in DOMAIN cache =>
                        /\ ret' = cache[key]
                        /\ fetches' = fetches
                        /\ instances' = instances
                        /\ cache' = cache
        /\ fetches' # fetches =>
              /\ fetches' = fetches + 1
              /\ \E key \in (DOMAIN cache') \ (DOMAIN cache) :
                    cache'[key] = ret'
        /\ NoFlush => \A key \in DOMAIN cache :
              key \in DOMAIN cache' /\ cache'[key] = cache[key] ]_vars

\* config() has returned the first Config, fetched once; the caller has
\* stored myval in it, the source has changed since, and the cache still
\* holds that very object with the caller's value.
C3_Witness ==
    /\ fetches = 1
    /\ Len(instances) = 1
    /\ ret = Obj(1)
    /\ CacheKey("config", <<>>, <<>>) \in DOMAIN cache
    /\ cache[CacheKey("config", <<>>, <<>>)] = Obj(1)
    /\ Get(instances[1].data, "mykey") = PyStr("myval")
    /\ source.json
    /\ Get(source.doc, "foo") # Deep(Get(instances[1].data, "foo"), heap)

\* C4: flush.  After flush(key) no cache entry whose key contains `key`
\* remains, and every entry whose key does not contain it is still there
\* with its value; a later call with such a key returns that value without
\* a fetch.
C4_Flush ==
    [][ /\ \A key \in FlushKeys : Flush(key) =>
              /\ \A item \in DOMAIN cache' : ~Contains(item, key)
              /\ \A item \in DOMAIN cache : ~Contains(item, key) =>
                    item \in DOMAIN cache' /\ cache'[item] = cache[item]
              /\ DOMAIN cache' \subseteq DOMAIN cache
        /\ \A form \in CallForms : ConfigCall(form) =>
              LET item == CacheKey("config", form.args, form.kwargs)
              IN  item \in DOMAIN cache =>
                    ret' = cache[item] /\ fetches' = fetches ]_vars

\* config(), config('foo') and config(scope='new') were fetched, the entry
\* of config('foo') has been flushed, the source has changed, and config()
\* has returned the first Config again, with the stale value of foo.
C4_Witness ==
    /\ fetches = 3
    /\ DOMAIN cache = { CacheKey("config", <<>>, <<>>),
                        CacheKey("config", <<>>, << <<"scope", PyStr("new")>> >>) }
    /\ ret = Obj(1)
    /\ Len(instances) = 1
    /\ source.json
    /\ Get(source.doc, "foo") # Deep(Get(instances[1].data, "foo"), heap)

\* C5: the callbacks are run in the exact reverse of their registration
\* order, each with the arguments it was registered with.
C5_ReverseOrder ==
    phase = "done" =>
        /\ Len(ran) = Len(registered)
        /\ \A n \in 1..Len(ran) : ran[n] = registered[Len(registered) + 1 - n]

\* A, B(1) and C(k=1) were registered in that order and run as C, B, A.
C5_Witness ==
    /\ phase = "done"
    /\ registered = << UserCallback("A", <<>>, <<>>),
                       UserCallback("B", <<PyInt(1)>>, <<>>),
                       UserCallback("C", <<>>, << <<"k", PyInt(1)>> >>) >>
    /\ ran = << UserCallback("C", <<>>, << <<"k", PyInt(1)>> >>),
                UserCallback("B", <<PyInt(1)>>, <<>>),
                UserCallback("A", <<>>, <<>>) >>

\* How many times entry e is in seq.
Count(seq, e) == Cardinality({n \in 1..Len(seq) : seq[n] = e})

\* C7: every registration is executed exactly once when the process
\* completes, a callback registered twice being executed twice, and nothing
\* is executed before the completion signal or without it.
C7_ExactlyOnce ==
    /\ phase # "done" => ran = <<>>
    /\ phase = "done" =>
          /\ Len(ran) = Len(registered)
          /\ \A n \in 1..Len(registered) :
                Count(ran, registered[n]) = Count(registered, registered[n])

\* A was registered twice, B(1) once, and A has run twice.
C7_Witness ==
    /\ phase = "done"
    /\ Count(registered, UserCallback("A", <<>>, <<>>)) = 2
    /\ Count(registered, UserCallback("B", <<PyInt(1)>>, <<>>)) = 1
    /\ Count(ran, UserCallback("A", <<>>, <<>>)) = 2

\* The completion signal is given in this step.
Completes == phase = "running" /\ phase' = "done"

\* The Config objects that save to path p when their callback is invoked.
Savers(p) ==
    {i \in 1..Len(instances) :
        instances[i].implicit_save /\ instances[i].path = p}

\* C11: implicit_save is True after construction, and the deferred save
\* goes by its value when the callbacks run: a file no Config with
\* implicit_save True points to is left as it is, and otherwise the file
\* holds the whole current mapping of such a Config.
C11_AutoSave ==
    [][ /\ Len(instances') = Len(instances) + 1 =>
              instances'[Len(instances')].implicit_save
        /\ Completes => \A p \in Paths :
              IF Savers(p) = {}
              THEN fs'[p] = fs[p]
              ELSE \E i \in Savers(p) :
                     fs'[p] = File(JsonDump(instances[i].data, heap)) ]_vars

\* The caller switched implicit_save off; the callback of the Config was
\* invoked at completion and the file, which differs from the current
\* mapping, was not written.
C11_Witness ==
    /\ phase = "done"
    /\ Len(instances) = 1
    /\ ~instances[1].implicit_save
    /\ ran = <<SaveCallback(1)>>
    /\ fs[DefaultPath].exists
    /\ fs[DefaultPath].doc # JsonDump(instances[1].data, heap)

\* C12: when the config source prints something that is not JSON, config(),
\* with or without scope, returns None and the hook goes on; no Config is
\* constructed and no callback registered, and a hook that completes
\* without a Config leaves the snapshot files as they were.
C12_ParseError ==
    [][ /\ \A form \in CallForms :
              ( /\ ConfigCall(form)
                /\ ~source.json
                /\ CacheKey("config", form.args, form.kwargs)
                      \notin DOMAIN cache ) =>
                  /\ ret' = None
                  /\ phase' = "running"
                  /\ instances' = instances
                  /\ _atexit' = _atexit
                  /\ fs' = fs
        /\ (Completes /\ Len(instances) = 0) => fs' = fs ]_vars

\* config() and config('foo') have both returned None, fetched from a
\* source that printed no JSON; the hook has completed with no Config, no
\* callback, and the snapshot of the earlier hook in place.
C12_Witness ==
    /\ phase = "done"
    /\ fetches = 2
    /\ DOMAIN cache = { CacheKey("config", <<>>, <<>>),
                        CacheKey("config", <<PyStr("foo")>>, <<>>) }
    /\ \A key \in DOMAIN cache : cache[key] = None
    /\ instances = <<>>
    /\ _atexit = <<>>
    /\ ran = <<>>
    /\ fs[DefaultPath] = File([foo |-> PyStr("bar")])

\* C13: save() is idempotent.  A save() by the caller, before or after the
\* deferred save, leaves in the file of the Config the whole current
\* mapping and nothing else, whatever the file held: with no mutation in
\* between, a second save leaves what the first one left.  The other
\* files and the phase of the process stay as they are.
C13_SaveIdempotent ==
    [][ \A i \in 1..Len(instances) :
          (Save(i) \/ SaveAfterCompletion(i)) =>
              /\ fs'[instances[i].path]
                    = File(JsonDump(instances[i].data, heap))
              /\ \A p \in Paths \ {instances[i].path} : fs'[p] = fs[p]
              /\ save(instances'[i], fs', heap') = fs'
              /\ phase' = phase ]_vars

\* Two Configs with implicit_save True, the second holding a value of the
\* caller; at completion the first one saved last, and the file now holds
\* the mapping of the second: it was saved by hand after the deferred saves.
C13_Witness ==
    /\ phase = "done"
    /\ Len(instances) = 2
    /\ instances[1].implicit_save /\ instances[2].implicit_save
    /\ ran = <<SaveCallback(2), SaveCallback(1)>>
    /\ JsonDump(instances[2].data, heap) # JsonDump(instances[1].data, heap)
    /\ fs[DefaultPath] = File(JsonDump(instances[2].data, heap))

\* C14 as stated: the path of a Config never changes once it is constructed.
C14_PathImmutable ==
    [][ \A i \in 1..Len(instances) :
          instances'[i].path = instances[i].path ]_vars

\* C14 as amended: the path of a Config is the default one at construction
\* and is changed by load_previous with an explicit path only, which sets it
\* to that path; a save() writes the file at the path the Config has then
\* and no other file.
C14_PathSetByLoadPrevious ==
    [][ /\ Len(instances') = Len(instances) + 1 =>
              instances'[Len(instances')].path = DefaultPath
        /\ \A i \in 1..Len(instances) :
              /\ instances'[i].path # instances[i].path =>
                    LoadPrevious(i, instances'[i].path)
              /\ LoadPrevious(i, NoPath) =>
                    instances'[i].path = instances[i].path
              /\ \A path \in LoadPaths \ {NoPath} :
                    LoadPrevious(i, path) => instances'[i].path = path
              /\ (Save(i) \/ SaveAfterCompletion(i)) =>
                    /\ fs'[instances[i].path]
                          = File(JsonDump(instances[i].data, heap))
                    /\ \A p \in Paths \ {instances[i].path} :
                          fs'[p] = fs[p] ]_vars

\* The caller loaded the snapshot kept elsewhere into the only Config; the
\* deferred save then wrote the mapping of the Config to that other path
\* and left the default file, which differs, alone.
C14_Witness ==
    /\ phase = "done"
    /\ Len(instances) = 1
    /\ instances[1].path = OtherPath
    /\ instances[1].implicit_save
    /\ fs[OtherPath] = File(JsonDump(instances[1].data, heap))
    /\ fs[OtherPath] # OtherFile
    /\ fs[DefaultPath] # fs[OtherPath]

\* The calls f1 and f2 pass the same positional arguments and the same
\* keyword arguments, whatever the order of the keywords.
SameArguments(f1, f2) ==
    /\ f1.args = f2.args
    /\ {f1.kwargs[n] : n \in 1..Len(f1.kwargs)}
          = {f2.kwargs[n] : n \in 1..Len(f2.kwargs)}

\* C15: a call of a memoized function with the keyword arguments of an
\* earlier, cached call in another order is served from the entry of that
\* call: the function is not invoked, the stored value is returned and no
\* entry is added.
C15_KwargsOrder ==
    [][ \A f1, f2 \in KwForms :
          ( /\ SameArguments(f1, f2)
            /\ CacheKey("f", f1.args, f1.kwargs) \in DOMAIN cache
            /\ CachedCall(f2) ) =>
              /\ fetches' = fetches
              /\ ret' = cache[CacheKey("f", f1.args, f1.kwargs)]
              /\ DOMAIN cache' = DOMAIN cache ]_vars

\* The registry entries that are the save of the i-th Config.
SavesOf(registry, i) ==
    {n \in 1..Len(registry) :
        registry[n].callback = "_implicit_save" /\ registry[n].self = i}

\* C16: the construction of a Config appends one entry to the registry, its
\* own save, so that the registry holds exactly one save per Config; at
\* completion the saves are invoked in reverse construction order, one for
\* each Config.
C16_OneSavePerConstruction ==
    [][ /\ Len(instances') = Len(instances) + 1 =>
              /\ Len(_atexit') = Len(_atexit) + 1
              /\ SubSeq(_atexit', 1, Len(_atexit)) = _atexit
              /\ SavesOf(_atexit', Len(instances')) = {Len(_atexit')}
        /\ \A i \in 1..Len(instances') :
              Cardinality(SavesOf(_atexit', i)) = 1
        /\ Completes =>
              /\ Len(ran') = Len(instances)
              /\ \A n \in 1..Len(ran') :
                    /\ ran'[n].callback = "_implicit_save"
                    /\ ran'[n].self = Len(instances) + 1 - n ]_vars

\* Three Configs were constructed, the cache being flushed in between, all
\* with implicit_save True, and their saves ran: the third, the second,
\* the first.
C16_Witness ==
    /\ phase = "done"
    /\ Len(instances) = 3
    /\ \A i \in 1..3 : instances[i].implicit_save
    /\ Len(ran) = 3
    /\ ran[1].self = 3 /\ ran[2].self = 2 /\ ran[3].self = 1
    /\ fs[DefaultPath] = File(JsonDump(instances[1].data, heap))

\* The calls of config() that name an option, and the option they name.
ScopedForms == {form \in CallForms : form.args # <<>> \/ form.kwargs # <<>>}
Option(form) ==
    IF form.args # <<>> THEN form.args[1].val ELSE form.kwargs[1][2].val

\* C17: config(scope) constructs no Config: it leaves the Config objects,
\* the registry and the snapshot files as they are, adds to the cache its
\* own entry only, which is not the entry of config(), and what it fetches
\* is the value the source holds for that option, whatever the snapshot
\* holds.
C17_ScopedLoad ==
    [][ \A form \in ScopedForms : ConfigCall(form) =>
          LET key == CacheKey("config", form.args, form.kwargs)
          IN  /\ instances' = instances
              /\ _atexit' = _atexit
              /\ fs' = fs
              /\ DOMAIN cache' = (DOMAIN cache) \cup {key}
              /\ \A item \in DOMAIN cache : cache'[item] = cache[item]
              /\ key # CacheKey("config", <<>>, <<>>)
              /\ (key \notin DOMAIN cache /\ source.json) =>
                    Deep(ret', heap') = Get(source.doc, Option(form)) ]_vars

\* config('foo') has returned baz, the value of the source, while the
\* snapshot holds bar; it is the only cache entry, there is no Config and
\* no callback, and the hook has completed with the snapshot as it was.
C17_Witness ==
    /\ phase = "done"
    /\ ret = PyStr("baz")
    /\ DOMAIN cache = { CacheKey("config", <<PyStr("foo")>>, <<>>) }
    /\ instances = <<>>
    /\ _atexit = <<>>
    /\ ran = <<>>
    /\ fs[DefaultPath] = File([foo |-> PyStr("bar")])

\* C18 as stated: a Config that has no previous snapshot keeps having none
\* for the rest of its life: changed(k) is true and previous(k) is None for
\* every key, whatever happens.
C18_Permanent ==
    [][ \A i \in 1..Len(instances) : instances[i]._prev_dict.none =>
          \A k \in AnyKey :
              /\ changed(instances'[i], k, heap')
              /\ previous(instances'[i], k) = None ]_vars

\* C18 as amended: a Config constructed while the snapshot file does not
\* exist has no previous snapshot, and keeps having none whatever is saved
\* afterwards, until the caller calls load_previous itself: changed(k) is
\* true and previous(k) is None for every key.
C18_NoRetry ==
    [][ /\ (Len(instances') = Len(instances) + 1 /\ ~fs[DefaultPath].exists)
              => instances'[Len(instances')]._prev_dict.none
        /\ \A i \in 1..Len(instances) :
              ( /\ instances[i]._prev_dict.none
                /\ ~(\E path \in LoadPaths : LoadPrevious(i, path)) ) =>
                  /\ instances'[i]._prev_dict.none
                  /\ \A k \in AnyKey :
                        /\ changed(instances'[i], k, heap')
                        /\ previous(instances'[i], k) = None ]_vars

\* The only Config was constructed without a snapshot and has saved by
\* hand: the file holds its mapping, and foo has still changed, with no
\* previous value.
C18_Witness ==
    /\ phase = "running"
    /\ Len(instances) = 1
    /\ instances[1]._prev_dict.none
    /\ fs[DefaultPath] = File(JsonDump(instances[1].data, heap))
    /\ "foo" \in DOMAIN fs[DefaultPath].doc
    /\ changed(instances[1], "foo", heap)
    /\ previous(instances[1], "foo") = None

\* C19: when the first two Configs of a hook, the second constructed after
\* a flush, both have implicit_save True and the same path, the file holds
\* after completion the mapping of the first one, whose save runs last;
\* the keys only the second one holds are not in the file.
C19_StaleInstanceWins ==
    [][ ( /\ Completes
          /\ Len(instances) >= 2
          /\ instances[1].implicit_save /\ instances[2].implicit_save
          /\ instances[1].path = instances[2].path ) =>
            /\ fs'[instances[1].path]
                  = File(JsonDump(instances[1].data, heap))
            /\ \A k \in (DOMAIN instances[2].data) \ (DOMAIN instances[1].data) :
                  k \notin DOMAIN fs'[instances[1].path].doc ]_vars

\* config() returned a first Config, the entry was flushed, config()
\* returned a second one and the caller stored mykey in it; both saved at
\* completion, the second and then the first, and the file has no mykey.
C19_Witness ==
    /\ phase = "done"
    /\ Len(instances) = 2
    /\ instances[1].implicit_save /\ instances[2].implicit_save
    /\ instances[1].path = DefaultPath /\ instances[2].path = DefaultPath
    /\ ran = <<SaveCallback(2), SaveCallback(1)>>
    /\ Get(instances[2].data, "mykey") = PyStr("myval")
    /\ "mykey" \notin DOMAIN instances[1].data
    /\ fs[DefaultPath] = File(JsonDump(instances[1].data, heap))
    /\ DOMAIN cache = {CacheKey("config", <<>>, <<>>)}
    /\ cache[CacheKey("config", <<>>, <<>>)] = Obj(2)

\* C20: a None result is memoized like any other.  When the source prints
\* no JSON, the call stores None under its key; a later call with that key
\* returns None without a fetch, even if the source now prints JSON; and the
\* entry stays until a flush.
C20_NullMemoized ==
    [][ /\ \A form \in CallForms : ConfigCall(form) =>
              LET key == CacheKey("config", form.args, form.kwargs)
              IN  /\ (key \notin DOMAIN cache /\ ~source.json) =>
                        key \in DOMAIN cache' /\ cache'[key] = None
                  /\ (key \in DOMAIN cache /\ cache[key] = None) =>
                        /\ ret' = None
                        /\ fetches' = fetches
                        /\ instances' = instances
                        /\ cache' = cache
        /\ NoFlush => \A key \in DOMAIN cache : cache[key] = None =>
              key \in DOMAIN cache' /\ cache'[key] = None ]_vars

\* config() returned None, fetched once while the source printed no JSON;
\* the source now prints JSON, and the cache still holds None for config(),
\* with no Config constructed.
C20_Witness ==
    /\ fetches = 1
    /\ ret = None
    /\ DOMAIN cache = {CacheKey("config", <<>>, <<>>)}
    /\ cache[CacheKey("config", <<>>, <<>>)] = None
    /\ source.json
    /\ instances = <<>>

====
